---- MODULE Spec2Model ----
(***************************************************************************)
(* Model of theme-resolver-per-day (src/src/resolver.ts): the rule         *)
(* evaluator, the duration estimator, the Easter computation and the       *)
(* resolution engine.                                                      *)
(*                                                                         *)
(* A JavaScript Date is modelled by its time value: an integer number of   *)
(* ticks since 1970-01-01T00:00 local time.  One tick is one hour (the     *)
(* code's unit is the millisecond; hours keep every value inside TLC's     *)
(* 32-bit integers and still distinguish midnight from later in the day).  *)
(* The platform's local time zone is taken to have no daylight-saving      *)
(* transitions, so local calendar fields follow from the time value by     *)
(* plain civil-calendar arithmetic.                                        *)
(*                                                                         *)
(* A JavaScript string is modelled as the sequence of its character codes  *)
(* (48..57 for the digits, 45 for the hyphen) so that the lexicographic    *)
(* comparison of the code is computed, not assumed.                        *)
(***************************************************************************)
EXTENDS Integers, Sequences, FiniteSets, TLC

VARIABLES catalog, options, date, themes, primary, pc, rule, active, year, easter

vars == <<catalog, options, date, themes, primary, pc, rule, active, year, easter>>

(***************************************************************************)
(* Bounds of the model.                                                    *)
(***************************************************************************)
MaxOffset == 2
MaxDuration == 3
MaxRules == 3
EasterFirstYear == 1583
EasterLastYear == 2600

(***************************************************************************)
(* Platform: Date.                                                         *)
(***************************************************************************)
\* Ticks per day: the code's 1000 * 60 * 60 * 24 milliseconds, in hours.
TicksPerDay == 24

\* Day number (days since 1970-01-01) of a proleptic Gregorian civil date.
DaysFromCivil(y, m, d) ==
    LET yy  == IF m <= 2 THEN y - 1 ELSE y
        era == yy \div 400
        yoe == yy - era * 400
        mp  == IF m > 2 THEN m - 3 ELSE m + 9
        doy == (153 * mp + 2) \div 5 + d - 1
        doe == yoe * 365 + yoe \div 4 - yoe \div 100 + doy
    IN  era * 146097 + doe - 719468

\* Civil date [y, m, d] of a day number.
CivilFromDays(z) ==
    LET zz  == z + 719468
        era == zz \div 146097
        doe == zz - era * 146097
        yoe == (doe - doe \div 1460 + doe \div 36524 - doe \div 146096) \div 365
        doy == doe - (365 * yoe + yoe \div 4 - yoe \div 100)
        mp  == (5 * doy + 2) \div 153
        d   == doy - (153 * mp + 2) \div 5 + 1
        m   == IF mp < 10 THEN mp + 3 ELSE mp - 9
        y   == yoe + era * 400 + (IF m <= 2 THEN 1 ELSE 0)
    IN  [y |-> y, m |-> m, d |-> d]

\* Local day number and time of day of a Date.
DayOf(t) == t \div TicksPerDay
TimeOfDay(t) == t % TicksPerDay

\* date.getFullYear(), date.getMonth() (0-based), date.getDate(), date.getDay().
getFullYear(t) == CivilFromDays(DayOf(t)).y
getMonth(t) == CivilFromDays(DayOf(t)).m - 1
getDate(t) == CivilFromDays(DayOf(t)).d
getDay(t) == (DayOf(t) + 4) % 7

\* new Date(year, monthIndex, day): local midnight; month and day overflow
\* roll into the following (or preceding) months and years.
NewDate(y, monthIndex, day) ==
    LET yy == y + monthIndex \div 12
        mm == (monthIndex % 12) + 1
    IN  (DaysFromCivil(yy, mm, 1) + day - 1) * TicksPerDay

\* d.setDate(n): day n of d's month (rolling over), same time of day.
setDate(t, n) ==
    (DaysFromCivil(getFullYear(t), getMonth(t) + 1, 1) + n - 1) * TicksPerDay
        + TimeOfDay(t)

\* d.setFullYear(y): same month, day and time of day in year y (rolling over).
setFullYear(t, y) ==
    (DaysFromCivil(y, getMonth(t) + 1, 1) + getDate(t) - 1) * TicksPerDay
        + TimeOfDay(t)

\* date.toDateString(): weekday, month, day and year; no time of day.
toDateString(t) == <<getDay(t), getMonth(t), getDate(t), getFullYear(t)>>

(***************************************************************************)
(* Platform: strings and numbers.                                          *)
(***************************************************************************)
RECURSIVE toString(_)
\* n.toString() for a non-negative integer.
toString(n) ==
    IF n < 10 THEN <<48 + n>> ELSE Append(toString(n \div 10), 48 + (n % 10))

\* s.padStart(2, '0').
padStart2(s) == IF Len(s) >= 2 THEN s ELSE <<48>> \o s

RECURSIVE StrLess(_, _)
\* a < b on strings: lexicographic by code unit, a proper prefix is smaller.
StrLess(a, b) ==
    IF b = <<>> THEN FALSE
    ELSE IF a = <<>> THEN TRUE
    ELSE IF a[1] # b[1] THEN a[1] < b[1]
    ELSE StrLess(Tail(a), Tail(b))

StrLeq(a, b) == a = b \/ StrLess(a, b)
StrGeq(a, b) == ~StrLess(a, b)

RECURSIVE Number(_)
\* Number(s) for a string of decimal digits.
Number(s) ==
    IF s = <<>> THEN 0
    ELSE Number(SubSeq(s, 1, Len(s) - 1)) * 10 + (s[Len(s)] - 48)

RECURSIVE IndexOfHyphen(_, _)
IndexOfHyphen(s, i) ==
    IF i > Len(s) THEN 0 ELSE IF s[i] = 45 THEN i ELSE IndexOfHyphen(s, i + 1)

\* s.split('-').map(Number) for a string with one hyphen: the two numbers.
SplitNumbers(s) ==
    LET h == IndexOfHyphen(s, 1)
    IN  <<Number(SubSeq(s, 1, h - 1)), Number(SubSeq(s, h + 1, Len(s)))>>

\* Math.ceil(a / b) for b > 0.
CeilDiv(a, b) == -((-a) \div b)

(***************************************************************************)
(* Holiday calculator.                                                     *)
(***************************************************************************)
calculateEaster_WrongEpact(y) ==
    LET a == y % 19
        b == y \div 100
        c == y % 100
        d == b \div 4
        e == b % 4
        f == (b + 8) \div 25
        g == (b - f + 1) \div 3
        h == (19 * a + b - d - g + 14) % 30
        i == c \div 4
        k == c % 4
        l == (32 + 2 * e + 2 * i - h - k) % 7
        m == (a + 11 * h + 22 * l) \div 451
        month == (h + l - 7 * m + 114) \div 31
        day == ((h + l - 7 * m + 114) % 31) + 1
    IN  NewDate(y, month - 1, day)

\* calculateEaster(year): the anonymous Gregorian algorithm.
calculateEaster(y) ==
    LET a == y % 19
        b == y \div 100
        c == y % 100
        d == b \div 4
        e == b % 4
        f == (b + 8) \div 25
        g == (b - f + 1) \div 3
        h == (19 * a + b - d - g + 15) % 30
        i == c \div 4
        k == c % 4
        l == (32 + 2 * e + 2 * i - h - k) % 7
        m == (a + 11 * h + 22 * l) \div 451
        month == (h + l - 7 * m + 114) \div 31
        day == ((h + l - 7 * m + 114) % 31) + 1
    IN  NewDate(y, month - 1, day)

(***************************************************************************)
(* Rule evaluator.                                                         *)
(***************************************************************************)
isInRange_NoPad(from, to, d) ==
    LET currentDate == toString(getMonth(d) + 1) \o <<45>> \o toString(getDate(d))
    IN  IF StrLeq(from, to)
        THEN StrGeq(currentDate, from) /\ StrLeq(currentDate, to)
        ELSE StrGeq(currentDate, from) \/ StrLeq(currentDate, to)

\* isInRange(from, to, date).
isInRange(from, to, d) ==
    LET month == getMonth(d) + 1
        day == getDate(d)
        currentDate == padStart2(toString(month)) \o <<45>> \o padStart2(toString(day))
    IN  IF StrLeq(from, to)
        THEN StrGeq(currentDate, from) /\ StrLeq(currentDate, to)
        ELSE StrGeq(currentDate, from) \/ StrLeq(currentDate, to)

\* isHolidayOffsetActive(holiday, startOffset, endOffset, date, year).
isHolidayOffsetActive(holiday, startOffset, endOffset, d, y) ==
    IF holiday = "easter"
    THEN LET holidayDate == calculateEaster(y)
             startDate == setDate(holidayDate, getDate(holidayDate) + startOffset)
             endDate == setDate(holidayDate, getDate(holidayDate) + endOffset)
         IN  d >= startDate /\ d <= endDate
    ELSE FALSE

RECURSIVE FindNthWeekday(_, _, _, _, _, _)
\* The loop of isNthWeekdayActive from `day` on, with `count` occurrences
\* seen so far: <<targetDate>>, or <<>> for null.
FindNthWeekday(y, month, weekday, n, day, count) ==
    IF day > 31 THEN <<>>
    ELSE LET testDate == NewDate(y, month - 1, day)
         IN  IF getMonth(testDate) # month - 1 THEN <<>>
             ELSE IF getDay(testDate) = weekday
                  THEN IF count + 1 = n THEN <<testDate>>
                       ELSE FindNthWeekday(y, month, weekday, n, day + 1, count + 1)
                  ELSE FindNthWeekday(y, month, weekday, n, day + 1, count)

\* isNthWeekdayActive(month, weekday, n, duration, date).
isNthWeekdayActive(month, weekday, n, duration, d) ==
    LET y == getFullYear(d)
        found == FindNthWeekday(y, month, weekday, n, 1, 0)
    IN  IF found = <<>> THEN FALSE
        ELSE LET targetDate == found[1]
             IN  IF duration > 1
                 THEN LET halfDuration == duration \div 2
                          startDate == setDate(targetDate, getDate(targetDate) - halfDuration)
                          endDate == setDate(targetDate,
                                             getDate(targetDate) + (duration - halfDuration - 1))
                      IN  d >= startDate /\ d <= endDate
                 ELSE toDateString(d) = toDateString(targetDate)

\* rule.duration || 1: an absent or zero duration counts as 1.
DurationOr1(r) == IF "duration" \in DOMAIN r /\ r.duration # 0 THEN r.duration ELSE 1

\* isRuleActive(rule, date, year).
isRuleActive(r, d, y) ==
    CASE r.kind = "range" -> isInRange(r.from, r.to, d)
      [] r.kind = "holiday-offset" -> isHolidayOffsetActive(r.holiday, r.start, r.end, d, y)
      [] r.kind = "nth-weekday" -> isNthWeekdayActive(r.month, r.weekday, r.n, DurationOr1(r), d)
      [] r.kind = "always" -> TRUE
      [] OTHER -> FALSE

(***************************************************************************)
(* Duration estimator.  A JavaScript number is [inf, n]: the finite        *)
(* integer n, or Infinity.                                                 *)
(***************************************************************************)
Finite(n) == [inf |-> FALSE, n |-> n]
Infinity == [inf |-> TRUE, n |-> 0]

\* getThemeDuration(rule, year).
getThemeDuration(r, y) ==
    CASE r.kind = "range" ->
            LET from == SplitNumbers(r.from)
                to == SplitNumbers(r.to)
                startDate == NewDate(y, from[1] - 1, from[2])
                endDate0 == NewDate(y, to[1] - 1, to[2])
                endDate == IF endDate0 < startDate
                           THEN setFullYear(endDate0, y + 1) ELSE endDate0
                diffTime == endDate - startDate
            IN  Finite(CeilDiv(diffTime, TicksPerDay) + 1)
      [] r.kind = "holiday-offset" ->
            Finite((IF r.end - r.start < 0 THEN r.start - r.end ELSE r.end - r.start) + 1)
      [] r.kind = "nth-weekday" -> Finite(DurationOr1(r))
      [] r.kind = "always" -> Infinity
      [] OTHER -> Infinity

(***************************************************************************)
(* Resolution engine.                                                      *)
(***************************************************************************)
\* The imported rule catalog (themeRules.json).
themeRulesConfig == catalog

\* { ...rule, category }: the rule with its category added.
WithCategory(r, c) ==
    [f \in DOMAIN r \cup {"category"} |-> IF f = "category" THEN c ELSE r[f]]

RECURSIVE MapCategory(_, _)
MapCategory(rules, c) ==
    IF rules = <<>> THEN <<>>
    ELSE <<WithCategory(Head(rules), c)>> \o MapCategory(Tail(rules), c)

\* allRules: the four lists flattened, each rule tagged with its category.
AllRules(config) ==
    MapCategory(config.seasonal, "seasonal") \o MapCategory(config.holidays, "holidays")
        \o MapCategory(config.cultural, "cultural") \o MapCategory(config.everyday, "everyday")

\* The destructured options: enabledCultures defaults to [], userRegion may
\* be undefined; the empty string is falsy.
EnabledCulturesOf(opts) ==
    IF "enabledCultures" \in DOMAIN opts THEN opts.enabledCultures ELSE <<>>
UserRegionTruthy(opts) == "userRegion" \in DOMAIN opts /\ opts.userRegion # ""

\* array.includes(x).
Includes(seq, x) == \E i \in 1..Len(seq) : seq[i] = x

IsAvailable_IgnoreEnabled(r, opts) == r.name # "everyday"

\* The filter predicate of availableRules.
IsAvailable(r, opts) ==
    IF r.name = "everyday" THEN FALSE
    ELSE IF "enabled" \notin DOMAIN r \/ r.enabled = TRUE THEN TRUE
    ELSE IF r.enabled = FALSE
         THEN \/ Includes(EnabledCulturesOf(opts), r.name)
              \/ ("region" \in DOMAIN r /\ UserRegionTruthy(opts)
                    /\ Includes(r.region, opts.userRegion))
    ELSE FALSE

\* The ResolvedTheme pushed for a rule: name, category, rule, metadata.
Resolved(r, c) ==
    IF "metadata" \in DOMAIN r
    THEN [name |-> r.name, category |-> c, rule |-> r.rule, metadata |-> r.metadata]
    ELSE [name |-> r.name, category |-> c, rule |-> r.rule]

RECURSIVE MatchingThemes(_, _, _)
\* The loop over availableRules: the themes of the available rules that are
\* active, in catalog order.
MatchingThemes(rules, d, opts) ==
    IF rules = <<>> THEN <<>>
    ELSE LET r == Head(rules)
             rest == MatchingThemes(Tail(rules), d, opts)
         IN  IF IsAvailable(r, opts) /\ isRuleActive(r.rule, d, getFullYear(d))
             THEN <<Resolved(r, r.category)>> \o rest
             ELSE rest

\* allRules.find(r => r.name === name): the first rule of that name.
FindByName(rules, name) == rules[CHOOSE i \in 1..Len(rules) :
                                    /\ rules[i].name = name
                                    /\ \A j \in 1..(i - 1) : rules[j].name # name]

\* The sort comparator, durationA - durationB, as the sort reads it: its
\* sign, with NaN (Infinity - Infinity) read as 0.
CompareThemes(a, b, allRules, y) ==
    LET durationA == getThemeDuration(FindByName(allRules, a.name).rule, y)
        durationB == getThemeDuration(FindByName(allRules, b.name).rule, y)
    IN  IF durationA.inf /\ durationB.inf THEN 0
        ELSE IF durationA.inf THEN 1
        ELSE IF durationB.inf THEN -1
        ELSE durationA.n - durationB.n

RECURSIVE InsertTheme(_, _, _, _)
InsertTheme(sorted, x, allRules, y) ==
    IF sorted = <<>> THEN <<x>>
    ELSE LET last == sorted[Len(sorted)]
         IN  IF CompareThemes(last, x, allRules, y) > 0
             THEN Append(InsertTheme(SubSeq(sorted, 1, Len(sorted) - 1), x, allRules, y), last)
             ELSE Append(sorted, x)

SortThemes_Unsorted(matching, allRules, y) == matching

RECURSIVE SortThemes(_, _, _)
\* matchingThemes.sort(comparator): a stable sort.
SortThemes(matching, allRules, y) ==
    IF matching = <<>> THEN <<>>
    ELSE InsertTheme(SortThemes(SubSeq(matching, 1, Len(matching) - 1), allRules, y),
                     matching[Len(matching)], allRules, y)

WithFallback_None(matching, config) == matching

WithFallback_Always(matching, config) ==
    IF Len(matching) = 0
    THEN <<[name |-> "everyday", category |-> "everyday", rule |-> [kind |-> "always"]]>>
    ELSE matching

\* If no themes match, the everyday entry of config.everyday, when found.
WithFallback(matching, config) ==
    IF Len(matching) = 0
    THEN IF \E i \in 1..Len(config.everyday) : config.everyday[i].name = "everyday"
         THEN <<Resolved(FindByName(config.everyday, "everyday"), "everyday")>>
         ELSE matching
    ELSE matching

\* resolveThemesForDate(date, options).
resolveThemesForDate(d, opts) ==
    LET y == getFullYear(d)
        config == themeRulesConfig
        allRules == AllRules(config)
        matchingThemes == MatchingThemes(allRules, d, opts)
    IN  WithFallback(SortThemes(matchingThemes, allRules, y), config)

resolvePrimaryThemeForDate_Last(d, opts) ==
    LET result == resolveThemesForDate(d, opts)
    IN  IF Len(result) > 0 THEN <<result[Len(result)]>> ELSE <<>>

\* resolvePrimaryThemeForDate(date, options): <<theme>>, or <<>> for null.
resolvePrimaryThemeForDate(d, opts) ==
    LET result == resolveThemesForDate(d, opts)
    IN  IF Len(result) > 0 THEN <<result[1]>> ELSE <<>>

(***************************************************************************)
(* Inputs of the rule evaluator: rules and target dates.                   *)
(***************************************************************************)
\* The string "MM-DD" of a month and a day, as the catalog writes it.
MonthDayString(m, d) == padStart2(toString(m)) \o <<45>> \o padStart2(toString(d))

\* Times of day a target Date may carry: midnight and noon.
TimesOfDay == {0, 12}

\* The Dates of local days y-m-d1 .. y-m-d2 at the modelled times of day.
DatesOf(y, m, d1, d2) ==
    {DaysFromCivil(y, m, d) * TicksPerDay + t : d \in d1..d2, t \in TimesOfDay}

\* The Dates within k days of the local day of t.
DatesAround(t, k) ==
    {(DayOf(t) + i) * TicksPerDay + tod : i \in (-k)..k, tod \in TimesOfDay}

RangeEnds ==
    {MonthDayString(1, 7), MonthDayString(3, 1), MonthDayString(5, 31),
     MonthDayString(6, 15), MonthDayString(11, 27), MonthDayString(12, 26),
     MonthDayString(12, 31)}

RangeRules == {[kind |-> "range", from |-> f, to |-> t] : f \in RangeEnds, t \in RangeEnds}

HolidayOffsetRules ==
    {[kind |-> "holiday-offset", holiday |-> h, start |-> s, end |-> e] :
        h \in {"easter", "pentecost"},
        s \in (-MaxOffset)..MaxOffset, e \in (-MaxOffset)..MaxOffset}

NthWeekdayRules ==
    {[kind |-> "nth-weekday", month |-> m, weekday |-> w, n |-> n] :
        m \in {1, 11}, w \in 0..6, n \in 1..5}
    \cup
    {[kind |-> "nth-weekday", month |-> m, weekday |-> w, n |-> n, duration |-> d] :
        m \in {1, 11}, w \in 0..6, n \in 1..5, d \in 0..MaxDuration}

DateRules == RangeRules \cup HolidayOffsetRules \cup NthWeekdayRules \cup {[kind |-> "always"]}

RuleDates ==
    DatesAround(calculateEaster(2024), MaxOffset + 1)
    \cup DatesAround(calculateEaster(2025), MaxOffset + 1)
    \cup DatesOf(2025, 6, 15, 15)
    \cup DatesOf(2025, 10, 30, 31) \cup DatesOf(2025, 11, 1, 30)
    \cup DatesOf(2025, 12, 1, 2) \cup DatesOf(2025, 12, 26, 31)
    \cup DatesOf(2026, 1, 1, 8)

(***************************************************************************)
(* Specification of the rule evaluator: one rule, one target date.         *)
(***************************************************************************)
NoCatalog == [seasonal |-> <<>>, holidays |-> <<>>, cultural |-> <<>>, everyday |-> <<>>]
NoOptions == [enabledCultures |-> <<>>]

InitRule ==
    /\ rule \in DateRules
    /\ date \in RuleDates
    /\ active = FALSE
    /\ pc = "rule"
    /\ catalog = NoCatalog
    /\ options = NoOptions
    /\ themes = <<>>
    /\ primary = <<>>
    /\ year = 0
    /\ easter = 0

\* resolveThemesForDate's call isRuleActive(rule.rule, date, year), where
\* year is date.getFullYear().
EvaluateRule ==
    /\ pc = "rule"
    /\ active' = isRuleActive(rule, date, getFullYear(date))
    /\ pc' = "evaluated"
    /\ UNCHANGED <<catalog, options, date, themes, primary, rule, year, easter>>

NextRule == EvaluateRule

SpecRule == InitRule /\ [][NextRule]_vars

(***************************************************************************)
(* Claims about the rule evaluator (checked under SpecRule).               *)
(***************************************************************************)
Min(a, b) == IF a <= b THEN a ELSE b
Max(a, b) == IF a >= b THEN a ELSE b

\* The month and day of a Date, and of an "MM-DD" string, as the number
\* month * 100 + day: chronological order within a year.
MonthDayOfDate(t) == CivilFromDays(DayOf(t)).m * 100 + CivilFromDays(DayOf(t)).d
MonthDayOfString(s) == SplitNumbers(s)[1] * 100 + SplitNumbers(s)[2]

\* The local days of month m of year y1 on which weekday w falls, and the
\* n-th of them (a set with at most one element).
WeekdayDaysOfMonth(y1, m, w) ==
    {z \in DaysFromCivil(y1, m, 1)..(DaysFromCivil(y1, m, 1) + 30) :
        CivilFromDays(z).m = m /\ (z + 4) % 7 = w}
NthWeekdayDay(y1, m, w, n) ==
    {z \in WeekdayDaysOfMonth(y1, m, w) :
        Cardinality({x \in WeekdayDaysOfMonth(y1, m, w) : x < z}) = n - 1}

WrapRange == [kind |-> "range", from |-> MonthDayString(12, 26), to |-> MonthDayString(1, 7)]

\* C7: a range rule is active iff the target's month-day lies between from
\* and to (from <= md <= to when from <= to; md >= from or md <= to when
\* from > to), whatever the target's year and time of day; the window
\* 12-26..01-07 is active on 2025-12-31 and 2026-01-03, inactive on 2025-06-15.
RangeActiveByMonthDay ==
    (pc = "evaluated" /\ rule.kind = "range") =>
        LET md == MonthDayOfDate(date)
            f == MonthDayOfString(rule.from)
            t == MonthDayOfString(rule.to)
        IN  /\ active = (IF f <= t THEN f <= md /\ md <= t ELSE md >= f \/ md <= t)
            /\ rule = WrapRange =>
                /\ DayOf(date) = DaysFromCivil(2025, 12, 31) => active
                /\ DayOf(date) = DaysFromCivil(2026, 1, 3) => active
                /\ DayOf(date) = DaysFromCivil(2025, 6, 15) => ~active

\* Witness of C7: the wrapping window evaluated, and found active, at noon
\* of 2026-01-03.
RangeWrapActiveWitness ==
    /\ pc = "evaluated"
    /\ rule = WrapRange
    /\ date = DaysFromCivil(2026, 1, 3) * TicksPerDay + 12
    /\ active

\* C6: a holiday-offset rule on Easter is active iff the target's calendar
\* day lies in [Easter + min(start, end), Easter + max(start, end)], Easter
\* being that of the target's year, for every pair of signed offsets.
HolidayOffsetActiveByDay ==
    (pc = "evaluated" /\ rule.kind = "holiday-offset" /\ rule.holiday = "easter") =>
        LET e == DayOf(calculateEaster(getFullYear(date)))
        IN  active = (/\ DayOf(date) >= e + Min(rule.start, rule.end)
                      /\ DayOf(date) <= e + Max(rule.start, rule.end))

\* C8: an nth-weekday rule with duration d (default 1) is active iff the
\* n-th such weekday of the month exists in the target's year and the
\* target's calendar day lies from floor(d/2) days before it to
\* d - floor(d/2) - 1 days after it.
NthWeekdayActiveByDay ==
    (pc = "evaluated" /\ rule.kind = "nth-weekday") =>
        LET d == DurationOr1(rule)
            anchor == NthWeekdayDay(getFullYear(date), rule.month, rule.weekday, rule.n)
        IN  active = (\E a \in anchor :
                        /\ DayOf(date) >= a - d \div 2
                        /\ DayOf(date) <= a + (d - d \div 2 - 1))

\* C10: rule activity depends only on the target's calendar day: every time
\* of the same day gives the same answer.
ActiveIgnoresTimeOfDay ==
    pc = "evaluated" =>
        \A t \in TimesOfDay :
            isRuleActive(rule, DayOf(date) * TicksPerDay + t, getFullYear(date)) = active

(***************************************************************************)
(* Inputs of the resolution engine: catalogs, options and target dates.    *)
(* A catalog is a ThemeRulesConfig whose rule names are unique; its lists  *)
(* are sub-lists of the pools below, and its everyday list holds the       *)
(* everyday entry or nothing.                                              *)
(***************************************************************************)
Range(fm, fd, tm, td) ==
    [kind |-> "range", from |-> MonthDayString(fm, fd), to |-> MonthDayString(tm, td)]

SeasonalPool ==
    << [name |-> "spring", rule |-> Range(3, 1, 5, 31), enabled |-> TRUE],
       [name |-> "christmas", rule |-> Range(12, 26, 1, 7),
        metadata |-> [description |-> "festive"]] >>

HolidaysPool ==
    << [name |-> "easter",
        rule |-> [kind |-> "holiday-offset", holiday |-> "easter", start |-> -2, end |-> 0]],
       [name |-> "thanksgiving", region |-> <<"us">>,
        rule |-> [kind |-> "nth-weekday", month |-> 11, weekday |-> 4, n |-> 4]],
       [name |-> "new-year", rule |-> Range(12, 31, 1, 1)],
       [name |-> "anytime", rule |-> [kind |-> "always"]] >>

CulturalPool ==
    << [name |-> "diwali", enabled |-> FALSE, region |-> <<"india">>,
        rule |-> Range(10, 20, 10, 24), metadata |-> [actualDate |-> "2025-10-21"]],
       [name |-> "hanukkah", enabled |-> FALSE, rule |-> Range(12, 25, 1, 2)],
       [name |-> "lunar", enabled |-> FALSE, region |-> <<>>, rule |-> Range(1, 1, 1, 15)] >>

EverydayRule == [name |-> "everyday", rule |-> [kind |-> "always"]]

RECURSIVE Pick(_, _, _)
\* The sub-list of pool at the indices in S, from index i on, in pool order.
Pick(pool, S, i) ==
    IF i > Len(pool) THEN <<>>
    ELSE (IF i \in S THEN <<pool[i]>> ELSE <<>>) \o Pick(pool, S, i + 1)

Catalogs ==
    {[seasonal |-> Pick(SeasonalPool, a, 1), holidays |-> Pick(HolidaysPool, b, 1),
      cultural |-> Pick(CulturalPool, c, 1), everyday |-> e] :
        <<a, b, c>> \in {x \in (SUBSET (1..Len(SeasonalPool))) \X (SUBSET (1..Len(HolidaysPool)))
                                    \X (SUBSET (1..Len(CulturalPool))) :
                            Cardinality(x[1]) + Cardinality(x[2]) + Cardinality(x[3]) <= MaxRules},
        e \in {<<>>, <<EverydayRule>>}}

\* The options values: {} (the default), and records with enabledCultures,
\* userRegion or both.
OptionsSet ==
    {[enabledCultures |-> ec] : ec \in {<<"diwali">>, <<"hanukkah", "lunar">>}}
    \cup {[userRegion |-> ur] : ur \in {"india", ""}}
    \cup {[enabledCultures |-> <<"diwali">>, userRegion |-> ""],
          [enabledCultures |-> <<"hanukkah", "lunar">>, userRegion |-> "india"]}
    \cup {[f \in {} |-> f]}

\* Target dates: seven days at local midnight, three of them also at noon.
TargetDates ==
    {NewDate(2025, 3, 18), NewDate(2025, 5, 15), NewDate(2025, 9, 23), NewDate(2026, 0, 3)}
    \cup DatesOf(2025, 4, 20, 20) \cup DatesOf(2025, 11, 27, 27)
    \cup DatesOf(2025, 12, 31, 31)

(***************************************************************************)
(* Specification of the resolution engine: for one catalog, target date    *)
(* and options, resolveThemesForDate and then resolvePrimaryThemeForDate   *)
(* are called.                                                             *)
(***************************************************************************)
Init ==
    /\ catalog \in Catalogs
    /\ options \in OptionsSet
    /\ date \in TargetDates
    /\ themes = <<>>
    /\ primary = <<>>
    /\ pc = "start"
    /\ rule = [kind |-> "always"]
    /\ active = FALSE
    /\ year = 0
    /\ easter = 0

ResolveThemes ==
    /\ pc = "start"
    /\ themes' = resolveThemesForDate(date, options)
    /\ pc' = "themes"
    /\ UNCHANGED <<catalog, options, date, primary, rule, active, year, easter>>

ResolvePrimary ==
    /\ pc = "themes"
    /\ primary' = resolvePrimaryThemeForDate(date, options)
    /\ pc' = "primary"
    /\ UNCHANGED <<catalog, options, date, themes, rule, active, year, easter>>

Next == ResolveThemes \/ ResolvePrimary

Spec == Init /\ [][Next]_vars

(***************************************************************************)
(* Claims about the resolution engine (checked under Spec).                *)
(***************************************************************************)
Resolved_ == pc \in {"themes", "primary"}

\* The rules of the three dated categories, in catalog order.
DatedRules == catalog.seasonal \o catalog.holidays \o catalog.cultural

\* A rule is opted in by the caller: it is named in enabledCultures, or its
\* non-empty region list contains the caller's userRegion.
OptedIn(r) ==
    \/ \E i \in 1..Len(EnabledCulturesOf(options)) : EnabledCulturesOf(options)[i] = r.name
    \/ /\ "region" \in DOMAIN r
       /\ "userRegion" \in DOMAIN options
       /\ \E i \in 1..Len(r.region) : r.region[i] = options.userRegion

OptIn(r) == "enabled" \in DOMAIN r /\ r.enabled = FALSE

ActiveOnDate(r) == isRuleActive(r.rule, date, getFullYear(date))

NoneActive ==
    \A i \in 1..Len(DatedRules) :
        ~(ActiveOnDate(DatedRules[i]) /\ (OptIn(DatedRules[i]) => OptedIn(DatedRules[i])))

HasEveryday == \E i \in 1..Len(catalog.everyday) : catalog.everyday[i].name = "everyday"

Appears(name) == \E i \in 1..Len(themes) : themes[i].name = name

DurationLeq(a, b) == b.inf \/ (~a.inf /\ a.n <= b.n)

\* C1: the list returned by resolveThemesForDate is non-decreasing by
\* getThemeDuration of each entry's rule in the target date's year, an
\* always rule (Infinity) coming after every finite-duration rule.
ThemesSortedByDuration ==
    Resolved_ =>
        \A i \in 1..(Len(themes) - 1) :
            DurationLeq(getThemeDuration(themes[i].rule, getFullYear(date)),
                        getThemeDuration(themes[i + 1].rule, getFullYear(date)))

\* Witness of C1: three matches returned in another order than the
\* catalog's, the always rule last.
SortedReorderedWitness ==
    /\ Resolved_
    /\ Len(themes) = 3
    /\ themes[1].category = "holidays"
    /\ themes[2].category = "seasonal"
    /\ themes[3].rule.kind = "always"

\* C2: when no available seasonal, holiday or cultural rule is active, the
\* result is exactly the catalog's everyday entry, with category everyday.
FallbackWhenNoneActive ==
    (Resolved_ /\ HasEveryday /\ NoneActive) =>
        /\ Len(themes) = 1
        /\ themes[1].name = "everyday"
        /\ themes[1].category = "everyday"
        /\ themes[1].rule = catalog.everyday[1].rule

\* Witness of C2: the fallback returned on a date on which an opt-in rule
\* of the catalog is active but not opted in.
FallbackWitness ==
    /\ Resolved_
    /\ HasEveryday
    /\ NoneActive
    /\ \E i \in 1..Len(catalog.cultural) : ActiveOnDate(catalog.cultural[i])
    /\ themes = <<[name |-> "everyday", category |-> "everyday", rule |-> [kind |-> "always"]]>>

\* C3: a rule with enabled = false appears in the result only if the caller
\* opted in to it; a rule with enabled unset or true appears exactly when
\* its date rule is active, whatever the options.
OptInRulesNeedOptIn ==
    Resolved_ =>
        \A i \in 1..Len(DatedRules) :
            LET r == DatedRules[i]
            IN  /\ (OptIn(r) /\ Appears(r.name)) => OptedIn(r)
                /\ ~OptIn(r) => (Appears(r.name) <=> ActiveOnDate(r))

\* Witness of C3: an opt-in rule is active and left out for want of an
\* opt-in, next to a rule that is returned.
OptInSuppressedWitness ==
    /\ Resolved_
    /\ \E i \in 1..Len(catalog.cultural) :
          LET r == catalog.cultural[i]
          IN  OptIn(r) /\ ActiveOnDate(r) /\ ~OptedIn(r) /\ ~Appears(r.name)
    /\ Appears("christmas")
    /\ "userRegion" \in DOMAIN options

\* C4: resolvePrimaryThemeForDate returns the first element of the list
\* resolveThemesForDate returns for the same date and options, and null
\* only when that list is empty, which needs a catalog without an everyday
\* entry.
PrimaryIsFirstTheme ==
    pc = "primary" =>
        /\ primary = (IF themes = <<>> THEN <<>> ELSE <<themes[1]>>)
        /\ primary = <<>> => (themes = <<>> /\ ~HasEveryday)

\* Witness of C4: the primary theme of a list of several themes.
PrimaryOfSeveralWitness ==
    /\ pc = "primary"
    /\ Len(themes) >= 2
    /\ primary = <<themes[1]>>
    /\ themes[1] # themes[Len(themes)]

InitEaster ==
    /\ year \in EasterFirstYear..EasterLastYear
    /\ easter = 0
    /\ pc = "easter"
    /\ catalog = NoCatalog
    /\ options = NoOptions
    /\ date = 0
    /\ themes = <<>>
    /\ primary = <<>>
    /\ rule = [kind |-> "always"]
    /\ active = FALSE

CalculateEaster ==
    /\ pc = "easter"
    /\ easter' = calculateEaster(year)
    /\ pc' = "computed"
    /\ UNCHANGED <<catalog, options, date, themes, primary, rule, active, year>>

NextEaster == CalculateEaster

SpecEaster == InitEaster /\ [][NextEaster]_vars

(***************************************************************************)
(* Claim about the holiday calculator (checked under SpecEaster).          *)
(***************************************************************************)
\* Easter Sunday by Gauss's Easter algorithm with its two exceptions, as
\* the day number: March 22 + d + e, April 19 for April 26, and April 18
\* for April 25 when d = 28, e = 6 and (11 M + 11) mod 30 < 19.
GaussEasterDay(y) ==
    LET a == y % 19
        b == y % 4
        c == y % 7
        k == y \div 100
        p == (13 + 8 * k) \div 25
        q == k \div 4
        M == (15 - p + k - q) % 30
        N == (4 + k - q) % 7
        d == (19 * a + M) % 30
        e == (2 * b + 4 * c + 6 * d + N) % 7
        offset == IF d = 29 /\ e = 6 THEN 28
                  ELSE IF d = 28 /\ e = 6 /\ (11 * M + 11) % 30 < 19 THEN 27
                  ELSE d + e
    IN  DaysFromCivil(y, 3, 22) + offset

\* C9: calculateEaster(year) is local midnight of the Gregorian Easter
\* Sunday of that year: a Sunday from March 22 to April 25, the date of
\* Gauss's algorithm, and 2024-03-31, 2025-04-20 and 2026-04-05.
EasterIsEasterSunday ==
    pc = "computed" =>
        /\ TimeOfDay(easter) = 0
        /\ getDay(easter) = 0
        /\ DayOf(easter) >= DaysFromCivil(year, 3, 22)
        /\ DayOf(easter) <= DaysFromCivil(year, 4, 25)
        /\ DayOf(easter) = GaussEasterDay(year)
        /\ year = 2024 => DayOf(easter) = DaysFromCivil(2024, 3, 31)
        /\ year = 2025 => DayOf(easter) = DaysFromCivil(2025, 4, 20)
        /\ year = 2026 => DayOf(easter) = DaysFromCivil(2026, 4, 5)

\* Witness of C9: Easter 2025 computed as April 20.
Easter2025Witness ==
    /\ pc = "computed"
    /\ year = 2025
    /\ CivilFromDays(DayOf(easter)) = [y |-> 2025, m |-> 4, d |-> 20]

====
